---------------------------- MODULE Spec2Model ----------------------------
(***************************************************************************)
(* A model of the rideshare streaming pipeline:                            *)
(*   event_generator/event_generator.py  (producer of trip events)         *)
(*   event_processor/lambda_function.py  (validator, curated writer,       *)
(*                                        Athena partition registration)   *)
(* Python strings are sequences of one-character strings, so that the      *)
(* regular expressions, str.replace, os.path.dirname, isoformat and        *)
(* fromisoformat are computed character by character as the code does.     *)
(***************************************************************************)
EXTENDS Integers, Sequences, FiniteSets, TLC

(***************************************************************************)
(* Characters and string helpers                                           *)
(***************************************************************************)
DigitSeq == <<"0","1","2","3","4","5","6","7","8","9">>
Digits == {DigitSeq[i] : i \in 1..Len(DigitSeq)}
HexLower == Digits \cup {"a","b","c","d","e","f"}
UpperLetters == {"A","B","C","D","E","F","G","H","I","J","K","L","M",
                 "N","O","P","Q","R","S","T","U","V","W","X","Y","Z"}

DigitVal(c) == CHOOSE d \in 0..9 : DigitSeq[d + 1] = c

AllIn(s, set) == \A i \in 1..Len(s) : s[i] \in set

RECURSIVE IntOf(_)
\* int("0123") for a non-empty string of decimal digits
IntOf(s) == IF Len(s) = 0 THEN 0
            ELSE 10 * IntOf(SubSeq(s, 1, Len(s) - 1)) + DigitVal(s[Len(s)])

RECURSIVE Str10(_)
\* str(n) for n >= 0
Str10(n) == IF n < 10 THEN <<DigitSeq[n + 1]>>
            ELSE Str10(n \div 10) \o <<DigitSeq[(n % 10) + 1]>>

RECURSIVE ZeroPad(_, _)
\* the format specs :02d, :04d, :06d : pad on the left, never truncate
ZeroPad(s, w) == IF Len(s) >= w THEN s ELSE ZeroPad(<<"0">> \o s, w)

Fmt(n, w) == ZeroPad(Str10(n), w)

StartsWithAt(s, i, p) ==
    /\ i + Len(p) - 1 <= Len(s)
    /\ \A j \in 1..Len(p) : s[i + j - 1] = p[j]

(***************************************************************************)
(* String constants of the two programs                                    *)
(***************************************************************************)
TRIP_START == <<"t","r","i","p","_","s","t","a","r","t">>
TRIP_END == <<"t","r","i","p","_","e","n","d">>
VALID_EVENT_TYPES == {TRIP_START, TRIP_END}

FieldOrder == <<"event_type", "trip_id", "driver_id", "city", "timestamp",
                "fare_amount", "currency_code", "currency_symbol">>
Fields == {FieldOrder[i] : i \in 1..Len(FieldOrder)}

\* the Python types REQUIRED_FIELDS expects, as sets of value kinds.
\* isinstance(x, (int, float)) is true of a bool: bool is a subclass of int.
REQUIRED_FIELDS(f) == IF f = "fare_amount" THEN {"int", "float", "bool"}
                      ELSE {"str"}

(***************************************************************************)
(* JSON values: what json.loads can put in a field                         *)
(***************************************************************************)
Absent == [kind |-> "absent", s |-> <<>>, cents |-> 0, nan |-> FALSE]
Null == [kind |-> "null", s |-> <<>>, cents |-> 0, nan |-> FALSE]
StrV(x) == [kind |-> "str", s |-> x, cents |-> 0, nan |-> FALSE]
IntV(n) == [kind |-> "int", s |-> <<>>, cents |-> 100 * n, nan |-> FALSE]
FloatV(c) == [kind |-> "float", s |-> <<>>, cents |-> c, nan |-> FALSE]
BoolV(b) == [kind |-> "bool", s |-> <<>>, cents |-> IF b THEN 100 ELSE 0,
             nan |-> FALSE]
NaNV == [kind |-> "float", s |-> <<>>, cents |-> 0, nan |-> TRUE]

\* Python's x != 0 and x <= 0 on int, float and bool; every comparison with
\* NaN but != is False
PyNeZero(v) == v.nan \/ v.cents # 0
PyLeZero(v) == ~v.nan /\ v.cents <= 0

(***************************************************************************)
(* Regular expressions of the processor                                    *)
(***************************************************************************)
\* pattern.match(s) for a pattern ^P$ where P matches exactly n characters:
\* $ matches at the end of s and also just before a newline that ends s, so
\* P has to match BeforeDollar(s, n), all n characters of it
BeforeDollar(s, n) ==
    IF Len(s) = n + 1 /\ s[n + 1] = "\n" THEN SubSeq(s, 1, n) ELSE s

UuidBody(s) ==
    \A i \in 1..Len(s) : IF i \in {9, 14, 19, 24} THEN s[i] = "-"
                         ELSE s[i] \in HexLower
UUID_REGEX(s) ==
    LET t == BeforeDollar(s, 36) IN Len(t) = 36 /\ UuidBody(t)

CurrencyBody(s) == AllIn(s, UpperLetters)
CURRENCY_REGEX(s) ==
    LET t == BeforeDollar(s, 3) IN Len(t) = 3 /\ CurrencyBody(t)

(***************************************************************************)
(* datetime                                                                *)
(***************************************************************************)
IsLeap(y) == (y % 4 = 0 /\ y % 100 # 0) \/ y % 400 = 0
DaysInMonth(y, m) == IF m = 2 THEN (IF IsLeap(y) THEN 29 ELSE 28)
                     ELSE IF m \in {4, 6, 9, 11} THEN 30 ELSE 31

NoTime == [ok |-> FALSE, h |-> 0, m |-> 0, s |-> 0, us |-> 0]

\* _parse_hh_mm_ss_ff: HH[:MM[:SS[.fff[fff]]]]
ParseHhMmSsFf(t) ==
    LET L == Len(t)
        dig(i) == t[i] \in Digits
        shape == /\ L \in {2, 5, 8, 12, 15}
                 /\ dig(1) /\ dig(2)
                 /\ L >= 5 => (t[3] = ":" /\ dig(4) /\ dig(5))
                 /\ L >= 8 => (t[6] = ":" /\ dig(7) /\ dig(8))
                 /\ L >= 12 => (t[9] = "." /\ \A i \in 10..L : dig(i))
    IN IF ~shape THEN NoTime
       ELSE [ok |-> TRUE,
             h |-> IntOf(SubSeq(t, 1, 2)),
             m |-> IF L >= 5 THEN IntOf(SubSeq(t, 4, 5)) ELSE 0,
             s |-> IF L >= 8 THEN IntOf(SubSeq(t, 7, 8)) ELSE 0,
             us |-> IF L = 12 THEN 1000 * IntOf(SubSeq(t, 10, 12))
                    ELSE IF L = 15 THEN IntOf(SubSeq(t, 10, 15)) ELSE 0]

TimeInRange(c) == c.ok /\ c.h < 24 /\ c.m < 60 /\ c.s < 60

\* position of the first "-" or "+" of the time string, 0 when there is none
TzPos(t) ==
    LET minus == {i \in 1..Len(t) : t[i] = "-"}
        plus == {i \in 1..Len(t) : t[i] = "+"}
        first(S) == CHOOSE i \in S : \A j \in S : i <= j
    IN IF minus # {} THEN first(minus)
       ELSE IF plus # {} THEN first(plus) ELSE 0

NoDate == [ok |-> FALSE, year |-> 0, month |-> 0, day |-> 0,
           hour |-> 0, minute |-> 0, second |-> 0, microsecond |-> 0]

\* datetime.fromisoformat(s): YYYY-MM-DD[*HH[:MM[:SS[.fff[fff]]]][+HH:MM[:SS]]]
fromisoformat(s) ==
    LET L == Len(s)
        dateShape == /\ L >= 10
                     /\ \A i \in 1..10 : IF i \in {5, 8} THEN s[i] = "-"
                                         ELSE s[i] \in Digits
        y == IntOf(SubSeq(s, 1, 4))
        mo == IntOf(SubSeq(s, 6, 7))
        d == IntOf(SubSeq(s, 9, 10))
        dateOk == /\ dateShape
                  /\ y >= 1 /\ mo \in 1..12 /\ d \in 1..DaysInMonth(y, mo)
        tstr == SubSeq(s, 12, L)
        tz == TzPos(tstr)
        timestr == IF tz > 0 THEN SubSeq(tstr, 1, tz - 1) ELSE tstr
        tzstr == SubSeq(tstr, tz + 1, Len(tstr))
        tm == ParseHhMmSsFf(timestr)
        tzOk == tz = 0 \/ (Len(tzstr) \in {5, 8, 15}
                           /\ TimeInRange(ParseHhMmSsFf(tzstr)))
    IN IF ~dateOk THEN NoDate
       ELSE IF L = 10
            THEN [NoDate EXCEPT !.ok = TRUE, !.year = y, !.month = mo, !.day = d]
       ELSE IF L = 11 \/ ~TimeInRange(tm) \/ ~tzOk THEN NoDate
       ELSE [ok |-> TRUE, year |-> y, month |-> mo, day |-> d,
             hour |-> tm.h, minute |-> tm.m, second |-> tm.s,
             microsecond |-> tm.us]

(***************************************************************************)
(* validate_event                                                          *)
(***************************************************************************)
Ok == [ok |-> TRUE, exc |-> "", msg |-> "", field |-> "", got |-> ""]
Raise(exc, msg, field, got) ==
    [ok |-> FALSE, exc |-> exc, msg |-> msg, field |-> field, got |-> got]

\* the loop over REQUIRED_FIELDS.items(): the first field, in dict order,
\* that is missing or of the wrong type
FieldFails(event, f) == event[f].kind \notin REQUIRED_FIELDS(f)
FirstBadField(event) ==
    LET bad == {i \in 1..Len(FieldOrder) : FieldFails(event, FieldOrder[i])}
    IN IF bad = {} THEN 0 ELSE CHOOSE i \in bad : \A j \in bad : i <= j

validate_event(event) ==
    LET b == FirstBadField(event) IN
    IF b # 0 THEN
        IF event[FieldOrder[b]].kind = "absent"
        THEN Raise("ValueError", "Missing required field", FieldOrder[b], "")
        ELSE Raise("TypeError", "Field must be", FieldOrder[b],
                   event[FieldOrder[b]].kind)
    ELSE IF event["event_type"].s \notin VALID_EVENT_TYPES
    THEN Raise("ValueError", "event_type must be 'trip_start' or 'trip_end'",
               "event_type", "")
    ELSE IF ~UUID_REGEX(event["trip_id"].s)
    THEN Raise("ValueError", "trip_id must be a valid UUID", "trip_id", "")
    ELSE IF ~fromisoformat(event["timestamp"].s).ok
    THEN Raise("ValueError", "timestamp must be ISO 8601 format", "timestamp", "")
    ELSE IF ~CURRENCY_REGEX(event["currency_code"].s)
    THEN Raise("ValueError", "currency_code must be 3 uppercase letters",
               "currency_code", "")
    ELSE IF event["event_type"].s = TRIP_START /\ PyNeZero(event["fare_amount"])
    THEN Raise("ValueError", "trip_start fare_amount must be 0", "fare_amount", "")
    ELSE IF event["event_type"].s = TRIP_END /\ PyLeZero(event["fare_amount"])
    THEN Raise("ValueError", "trip_end fare_amount must be > 0", "fare_amount", "")
    ELSE Ok

(***************************************************************************)
(* str.replace, os.path.dirname, the partition regex, unquote_plus         *)
(***************************************************************************)
\* the least of the positions hits (positions count from 1); 0 when there is none
First(hits) ==
    IF hits = {} THEN 0 ELSE CHOOSE i \in hits : \A j \in hits : i <= j

RECURSIVE Replace(_, _, _)
\* s.replace(old, new): every non-overlapping occurrence, left to right
Replace(s, old, new) ==
    LET occurs(i) == s[i] = old[1] /\ StartsWithAt(s, i, old)
        at == First({i \in 1..Len(s) : occurs(i)})
    IN IF at = 0 THEN s
       ELSE SubSeq(s, 1, at - 1) \o new
            \o Replace(SubSeq(s, at + Len(old), Len(s)), old, new)

RAW_PREFIX == <<"r","a","w","/">>
CURATED_PREFIX == <<"c","u","r","a","t","e","d","/">>
JSON_EXT == <<".","j","s","o","n">>
PARQUET_EXT == <<".","p","a","r","q","u","e","t">>

\* lambda_handler's curated key
CuratedKey(key) ==
    Replace(Replace(key, RAW_PREFIX, CURATED_PREFIX), JSON_EXT, PARQUET_EXT)

RECURSIVE RStripSlash(_)
RStripSlash(s) == IF Len(s) > 0 /\ s[Len(s)] = "/"
                  THEN RStripSlash(SubSeq(s, 1, Len(s) - 1)) ELSE s

\* posixpath.dirname(p)
dirname(p) ==
    LET slashes == {i \in 1..Len(p) : p[i] = "/"}
        last == IF slashes = {} THEN 0
                ELSE CHOOSE i \in slashes : \A j \in slashes : j <= i
        head == SubSeq(p, 1, last)
    IN IF head # <<>> /\ ~AllIn(head, {"/"}) THEN RStripSlash(head) ELSE head

\* add_partition's LOCATION path (below s3://<bucket>/)
S3Path(key) == dirname(Replace(key, RAW_PREFIX, CURATED_PREFIX)) \o <<"/">>

YEAR_EQ == <<"y","e","a","r","=">>
MONTH_EQ == <<"/","m","o","n","t","h","=">>
DAY_EQ == <<"/","d","a","y","=">>

\* length of the run of digits of s that starts at position i (greedy \d+)
DigitRun(s, i) ==
    LET stops == {j \in i..(Len(s) + 1) : j = Len(s) + 1 \/ s[j] \notin Digits}
    IN (CHOOSE j \in stops : \A k \in stops : j <= k) - i

NoMatch == [found |-> FALSE, year |-> 0, month |-> 0, day |-> 0]

\* re.search(r"year=(\d+)/month=(\d+)/day=(\d+)", key) tried at position i,
\* with the three groups converted by int()
PartitionMatchAt(key, i) ==
    LET yAt == i + Len(YEAR_EQ)
        yLen == DigitRun(key, yAt)
        mAt == yAt + yLen + Len(MONTH_EQ)
        mLen == DigitRun(key, mAt)
        dAt == mAt + mLen + Len(DAY_EQ)
        dLen == DigitRun(key, dAt)
    IN IF /\ StartsWithAt(key, i, YEAR_EQ) /\ yLen > 0
          /\ StartsWithAt(key, yAt + yLen, MONTH_EQ) /\ mLen > 0
          /\ StartsWithAt(key, mAt + mLen, DAY_EQ) /\ dLen > 0
       THEN [found |-> TRUE,
             year |-> IntOf(SubSeq(key, yAt, yAt + yLen - 1)),
             month |-> IntOf(SubSeq(key, mAt, mAt + mLen - 1)),
             day |-> IntOf(SubSeq(key, dAt, dAt + dLen - 1))]
       ELSE NoMatch

\* the leftmost match, as re.search returns it
PartitionSearch(key) ==
    LET hits == {i \in 1..Len(key) : key[i] = "y" /\ PartitionMatchAt(key, i).found}
    IN IF hits = {} THEN NoMatch
       ELSE PartitionMatchAt(key, CHOOSE i \in hits : \A j \in hits : i <= j)

PCT_EQ == <<"%","3","D">>
PCT_PLUS == <<"%","2","B">>
PCT_SPACE == <<"%","2","0">>
PCT_PCT == <<"%","2","5">>
Escapes == {PCT_EQ, PCT_PLUS, PCT_SPACE, PCT_PCT}
Unescaped(e) == CASE e = PCT_EQ -> "=" [] e = PCT_PLUS -> "+"
                  [] e = PCT_SPACE -> " " [] e = PCT_PCT -> "%"

RECURSIVE unquote_plus(_)
\* urllib.parse.unquote_plus on the escapes S3 puts in an event's object key:
\* a + is a space, %XX is the character XX
unquote_plus(s) ==
    LET special(i) == s[i] = "+" \/ (s[i] = "%" /\ SubSeq(s, i, i + 2) \in Escapes)
        at == First({i \in 1..Len(s) : special(i)})
    IN IF at = 0 THEN s
       ELSE IF s[at] = "+"
            THEN SubSeq(s, 1, at - 1) \o <<" ">>
                 \o unquote_plus(SubSeq(s, at + 1, Len(s)))
       ELSE SubSeq(s, 1, at - 1) \o <<Unescaped(SubSeq(s, at, at + 2))>>
            \o unquote_plus(SubSeq(s, at + 3, Len(s)))

RECURSIVE S3EventKey(_)
\* the object key as the S3 notification carries it: URL-encoded, a space as +
S3EventKey(k) ==
    LET special(i) == k[i] \in {"=", "+", " ", "%"}
        at == First({i \in 1..Len(k) : special(i)})
    IN IF at = 0 THEN k
       ELSE SubSeq(k, 1, at - 1)
            \o (CASE k[at] = "=" -> PCT_EQ
                  [] k[at] = "+" -> PCT_PLUS
                  [] k[at] = " " -> <<"+">>
                  [] k[at] = "%" -> PCT_PCT)
            \o S3EventKey(SubSeq(k, at + 1, Len(k)))

(***************************************************************************)
(* json.dumps / json.loads of a flat record                                *)
(* A document gives each field its JSON token: quoted text for a string,   *)
(* bare text for a number, true, false, null or NaN.                       *)
(***************************************************************************)
POUND == "<U+00A3>"
YEN == "<U+00A5>"
EURO == "<U+20AC>"
NonAscii == {POUND, YEN, EURO}
UCode(c) == CASE c = POUND -> <<"0","0","a","3">>
              [] c = YEN -> <<"0","0","a","5">>
              [] c = EURO -> <<"2","0","a","c">>
UChar(h) == CASE h = <<"0","0","a","3">> -> POUND
              [] h = <<"0","0","a","5">> -> YEN
              [] h = <<"2","0","a","c">> -> EURO

RECURSIVE JsonEscape(_)
\* the body of a JSON string literal, ensure_ascii=True
JsonEscape(s) ==
    LET special(i) == s[i] \in {"\"", "\\", "\n"} \cup NonAscii
        at == First({i \in 1..Len(s) : special(i)})
    IN IF at = 0 THEN s
       ELSE SubSeq(s, 1, at - 1)
            \o (CASE s[at] = "\"" -> <<"\\", "\"">>
                  [] s[at] = "\\" -> <<"\\", "\\">>
                  [] s[at] = "\n" -> <<"\\", "n">>
                  [] s[at] \in NonAscii -> <<"\\", "u">> \o UCode(s[at]))
            \o JsonEscape(SubSeq(s, at + 1, Len(s)))

RECURSIVE JsonUnescape(_)
JsonUnescape(t) ==
    LET special(i) == t[i] = "\\"
        at == First({i \in 1..Len(t) : special(i)})
    IN IF at = 0 THEN t
       ELSE IF t[at + 1] = "u"
            THEN SubSeq(t, 1, at - 1) \o <<UChar(SubSeq(t, at + 2, at + 5))>>
                 \o JsonUnescape(SubSeq(t, at + 6, Len(t)))
       ELSE SubSeq(t, 1, at - 1) \o <<IF t[at + 1] = "n" THEN "\n" ELSE t[at + 1]>>
            \o JsonUnescape(SubSeq(t, at + 2, Len(t)))

\* str(n) of an int
IntRepr(n) == IF n < 0 THEN <<"-">> \o Str10(0 - n) ELSE Str10(n)

\* repr(x) of a float with at most two decimals, x = cents / 100
FloatRepr(c) ==
    LET a == IF c < 0 THEN 0 - c ELSE c
        frac == IF a % 100 = 0 THEN <<"0">>
                ELSE IF a % 10 = 0 THEN Str10((a % 100) \div 10)
                ELSE Fmt(a % 100, 2)
    IN (IF c < 0 THEN <<"-">> ELSE <<>>) \o Str10(a \div 100) \o <<".">> \o frac

T_TRUE == <<"t","r","u","e">>
T_FALSE == <<"f","a","l","s","e">>
T_NULL == <<"n","u","l","l">>
T_NAN == <<"N","a","N">>

NoToken == [q |-> FALSE, text |-> <<>>]

JsonToken(v) ==
    CASE v.kind = "absent" -> NoToken
      [] v.kind = "str" -> [q |-> TRUE, text |-> JsonEscape(v.s)]
      [] v.kind = "null" -> [q |-> FALSE, text |-> T_NULL]
      [] v.kind = "bool" -> [q |-> FALSE,
                             text |-> IF v.cents # 0 THEN T_TRUE ELSE T_FALSE]
      [] v.kind = "int" -> [q |-> FALSE, text |-> IntRepr(v.cents \div 100)]
      [] v.kind = "float" -> [q |-> FALSE,
                              text |-> IF v.nan THEN T_NAN ELSE FloatRepr(v.cents)]

\* the number a JSON number token denotes, times 100
NumberCents(t) ==
    LET neg == t[1] = "-"
        u == IF neg THEN Tail(t) ELSE t
        dots == {i \in 1..Len(u) : u[i] = "."}
        dot == IF dots = {} THEN Len(u) + 1 ELSE CHOOSE i \in dots : TRUE
        whole == IntOf(SubSeq(u, 1, dot - 1))
        fr == SubSeq(u, dot + 1, Len(u))
        frac == IF Len(fr) = 0 THEN 0
                ELSE IF Len(fr) = 1 THEN 10 * IntOf(fr) ELSE IntOf(SubSeq(fr, 1, 2))
        a == 100 * whole + frac
    IN IF neg THEN 0 - a ELSE a

JsonValue(tok) ==
    IF tok = NoToken THEN Absent
    ELSE IF tok.q THEN StrV(JsonUnescape(tok.text))
    ELSE IF tok.text = T_NULL THEN Null
    ELSE IF tok.text = T_TRUE THEN BoolV(TRUE)
    ELSE IF tok.text = T_FALSE THEN BoolV(FALSE)
    ELSE IF tok.text = T_NAN THEN NaNV
    ELSE IF \E i \in 1..Len(tok.text) : tok.text[i] = "."
         THEN FloatV(NumberCents(tok.text))
    ELSE [IntV(0) EXCEPT !.cents = NumberCents(tok.text)]

json_dumps(event) == [json |-> TRUE, doc |-> [f \in Fields |-> JsonToken(event[f])]]
json_loads(content) == [f \in Fields |-> JsonValue(content.doc[f])]
NotJson == [json |-> FALSE, doc |-> [f \in Fields |-> NoToken]]

(***************************************************************************)
(* datetime.isoformat and datetime + timedelta(minutes=...)                *)
(***************************************************************************)
isoformat(dt) ==
    Fmt(dt.year, 4) \o <<"-">> \o Fmt(dt.month, 2) \o <<"-">> \o Fmt(dt.day, 2)
    \o <<"T">> \o Fmt(dt.hour, 2) \o <<":">> \o Fmt(dt.minute, 2)
    \o <<":">> \o Fmt(dt.second, 2)
    \o (IF dt.microsecond # 0 THEN <<".">> \o Fmt(dt.microsecond, 6) ELSE <<>>)

\* dt + timedelta(minutes = n), for n of less than a day
AddMinutes(dt, n) ==
    LET tot == dt.hour * 60 + dt.minute + n
        carry == tot \div 1440
        d1 == dt.day + carry
        over == d1 > DaysInMonth(dt.year, dt.month)
        mo == IF over THEN (IF dt.month = 12 THEN 1 ELSE dt.month + 1) ELSE dt.month
    IN [dt EXCEPT !.hour = (tot % 1440) \div 60,
                  !.minute = tot % 60,
                  !.day = IF over THEN 1 ELSE d1,
                  !.month = mo,
                  !.year = IF over /\ dt.month = 12 THEN dt.year + 1 ELSE dt.year]

(***************************************************************************)
(* event_generator.py                                                      *)
(***************************************************************************)
LONDON == <<"L","o","n","d","o","n">>
NEW_YORK == <<"N","e","w"," ","Y","o","r","k">>
TOKYO == <<"T","o","k","y","o">>
PARIS == <<"P","a","r","i","s">>
BERLIN == <<"B","e","r","l","i","n">>
CITIES == {LONDON, NEW_YORK, TOKYO, PARIS, BERLIN}

CITY_CONFIG(city) ==
    CASE city = LONDON -> [currency_code |-> <<"G","B","P">>, currency_symbol |-> <<POUND>>]
      [] city = NEW_YORK -> [currency_code |-> <<"U","S","D">>, currency_symbol |-> <<"$">>]
      [] city = TOKYO -> [currency_code |-> <<"J","P","Y">>, currency_symbol |-> <<YEN>>]
      [] city = PARIS -> [currency_code |-> <<"E","U","R">>, currency_symbol |-> <<EURO>>]
      [] city = BERLIN -> [currency_code |-> <<"E","U","R">>, currency_symbol |-> <<EURO>>]

EVENTS_PER_INVOCATION == 5

\* str(uuid.uuid4()): 32 random hex digits but the version digit 4 and the
\* variant digit; r.variant is the variant digit drawn, n numbers the draw
\* (two draws never give the same identifier)
Uuid4(r, n) ==
    <<"1","b","4","e","2","8","b","a","-","2","f","a","1","-","4","1","d","2","-">>
    \o <<r.variant>> \o <<"8","3","f","-","0","0","1","6","d","3","c","c","a","4">>
    \o <<DigitSeq[((n \div 10) % 10) + 1], DigitSeq[(n % 10) + 1]>>

MkEvent(etype, trip_id, r, ts, fare) ==
    [f \in Fields |->
        CASE f = "event_type" -> StrV(etype)
          [] f = "trip_id" -> StrV(trip_id)
          [] f = "driver_id" -> StrV(<<"d">> \o Str10(r.driver))
          [] f = "city" -> StrV(r.city)
          [] f = "timestamp" -> StrV(isoformat(ts))
          [] f = "fare_amount" -> FloatV(fare)
          [] f = "currency_code" -> StrV(CITY_CONFIG(r.city).currency_code)
          [] f = "currency_symbol" -> StrV(CITY_CONFIG(r.city).currency_symbol)]

\* generate_trip_pair(), r being what random and the clock gave this call
generate_trip_pair(r, n) ==
    LET trip_id == Uuid4(r, n)
        end_time == AddMinutes(r.now, r.minutes)
    IN [trip_start |-> MkEvent(TRIP_START, trip_id, r, r.now, 0),
        trip_end |-> MkEvent(TRIP_END, trip_id, r, end_time, r.fare)]

\* RawKey with the day segment filled from the month
RawKey_DayFromMonth(event) ==
    LET dt == fromisoformat(event["timestamp"].s)
    IN RAW_PREFIX \o YEAR_EQ \o Str10(dt.year) \o MONTH_EQ \o Fmt(dt.month, 2)
       \o DAY_EQ \o Fmt(dt.month, 2) \o <<"/">> \o event["trip_id"].s \o <<"_">>
       \o event["event_type"].s \o JSON_EXT

\* upload_event_to_s3's object key
RawKey(event) ==
    LET dt == fromisoformat(event["timestamp"].s)
    IN RAW_PREFIX \o YEAR_EQ \o Str10(dt.year) \o MONTH_EQ \o Fmt(dt.month, 2)
       \o DAY_EQ \o Fmt(dt.day, 2) \o <<"/">> \o event["trip_id"].s \o <<"_">>
       \o event["event_type"].s \o JSON_EXT

(***************************************************************************)
(* State                                                                   *)
(***************************************************************************)
VARIABLES
    rec,        \* the record handed to validate_event
    vres,       \* what validate_event did with it
    raw,        \* the raw object store: object key -> content
    curated,    \* the curated object store: object key -> record written
    notices,    \* the S3 notifications of raw objects: event keys, in put order
    inv,        \* the processor invocations: notification number -> invocation
    athena,     \* partition statements submitted to Athena and not yet run
    catalog,    \* the partitions of rideshare_db.curated, in the order added
    gen,        \* the generator invocation
    uploads     \* the events the generator has put in the raw store, in order

vars == <<rec, vres, raw, curated, notices, inv, athena, catalog, gen, uploads>>
valVars == <<rec, vres>>
procVars == <<curated, inv, athena, catalog>>
genVars == <<gen, uploads>>

(***************************************************************************)
(* Input values                                                            *)
(***************************************************************************)
MaxFare == 1

UUID_OK == <<"1","b","4","e","2","8","b","a","-","2","f","a","1","-","4","1","d","2","-","8","8","3","f","-","0","0","1","6","d","3","c","c","a","4","2","7">>
UUID_UPPER == <<"A","B","C","D","1","2","3","4","-","2","f","a","1","-","4","1","d","2","-","8","8","3","f","-","0","0","1","6","d","3","c","c","a","4","2","7">>
UUID_NEWLINE == UUID_OK \o <<"\n">>
UUID_SHORT == SubSeq(UUID_OK, 1, 35)

TS_FULL == <<"2","0","2","4","-","0","3","-","0","7","T","1","0",":","1","5",":","3","0",".","1","2","3","4","5","6">>
TS_DATE == <<"2","0","2","4","-","0","3","-","0","7">>
TS_OFFSET == <<"2","0","2","4","-","0","3","-","0","7"," ","1","0",":","1","5",":","3","0","+","0","1",":","0","0">>
TS_WORD == <<"y","e","s","t","e","r","d","a","y">>
TS_MONTH13 == <<"2","0","2","4","-","1","3","-","0","7","T","1","0",":","1","5",":","3","0">>

CUR_OK == <<"U","S","D">>
CUR_LOWER == <<"u","s","d">>
CUR_NEWLINE == CUR_OK \o <<"\n">>
CUR_LONG == <<"U","S","D","X">>

EventTypeValues == {Absent, Null, StrV(TRIP_START), StrV(TRIP_END),
                    StrV(<<"T","R","I","P","_","E","N","D">>)}
TripIdValues == {Absent, StrV(UUID_OK), StrV(UUID_UPPER), StrV(UUID_NEWLINE),
                 StrV(UUID_SHORT)}
DriverIdValues == {IntV(7), StrV(<<"d","7">>), StrV(<<>>)}
CityValues == {StrV(LONDON), StrV(<<"A","t","l","a","n","t","i","s">>)}
TimestampValues == {Absent, StrV(TS_FULL), StrV(TS_DATE), StrV(TS_OFFSET),
                    StrV(TS_WORD), StrV(TS_MONTH13)}
FareValues == {Absent, StrV(<<"5">>), BoolV(TRUE), BoolV(FALSE), NaNV,
               FloatV(0), FloatV(1250)}
              \cup {IntV(n) : n \in (0 - 1)..MaxFare}
CurrencyCodeValues == {Absent, StrV(CUR_OK), StrV(CUR_LOWER), StrV(CUR_NEWLINE),
                       StrV(CUR_LONG)}
CurrencySymbolValues == {Null, StrV(<<"$">>), StrV(<<>>)}

Records == [event_type : EventTypeValues, trip_id : TripIdValues,
            driver_id : DriverIdValues, city : CityValues,
            timestamp : TimestampValues, fare_amount : FareValues,
            currency_code : CurrencyCodeValues,
            currency_symbol : CurrencySymbolValues]

NoRecord == [f \in Fields |-> Absent]
NotRun == [ok |-> FALSE, exc |-> "", msg |-> "not run", field |-> "", got |-> ""]

(***************************************************************************)
(* validate_event applied to one record                                    *)
(***************************************************************************)
InitValidate ==
    /\ rec \in Records
    /\ vres = NotRun
    /\ raw = <<>> /\ curated = <<>> /\ notices = <<>> /\ inv = <<>>
    /\ athena = {} /\ catalog = <<>>
    /\ gen = [pc |-> "idle"] /\ uploads = <<>>

Validate ==
    /\ vres = NotRun
    /\ vres' = validate_event(rec)
    /\ UNCHANGED <<rec, raw, curated, notices, inv, athena, catalog, gen, uploads>>

SpecValidate == InitValidate /\ [][Validate]_vars

(***************************************************************************)
(* The six checks of the validator as the specification words them, each   *)
(* on a field that is present and of the expected kind                     *)
(***************************************************************************)
IsStr(r, f) == r[f].kind = "str"
IsNumber(r) == r["fare_amount"].kind \in {"int", "float"}
EventTypeIs(r, t) == IsStr(r, "event_type") /\ r["event_type"].s = t

PresenceAndType(r) ==
    /\ \A f \in Fields \ {"fare_amount"} : IsStr(r, f)
    /\ IsNumber(r)
EventTypeDomain(r) ==
    IsStr(r, "event_type") => r["event_type"].s \in {TRIP_START, TRIP_END}
CanonicalUuid(s) ==
    /\ Len(s) = 36
    /\ \A i \in 1..36 : IF i \in {9, 14, 19, 24} THEN s[i] = "-" ELSE s[i] \in HexLower
TripIdFormat(r) == IsStr(r, "trip_id") => CanonicalUuid(r["trip_id"].s)
TimestampParses(r) == IsStr(r, "timestamp") => fromisoformat(r["timestamp"].s).ok
ThreeUpper(s) == Len(s) = 3 /\ \A i \in 1..3 : s[i] \in UpperLetters
CurrencyFormat(r) == IsStr(r, "currency_code") => ThreeUpper(r["currency_code"].s)
FareRule(r) ==
    IsNumber(r) =>
        /\ EventTypeIs(r, TRIP_START) =>
               (~r["fare_amount"].nan /\ r["fare_amount"].cents = 0)
        /\ EventTypeIs(r, TRIP_END) =>
               (~r["fare_amount"].nan /\ r["fare_amount"].cents > 0)

CheckPasses(r, k) ==
    CASE k = 1 -> PresenceAndType(r)
      [] k = 2 -> EventTypeDomain(r)
      [] k = 3 -> TripIdFormat(r)
      [] k = 4 -> TimestampParses(r)
      [] k = 5 -> CurrencyFormat(r)
      [] k = 6 -> FareRule(r)
Violated(r) == {k \in 1..6 : ~CheckPasses(r, k)}
Lowest(S) == CHOOSE k \in S : \A j \in S : k <= j

\* the check an error of validate_event belongs to
ErrorCheck(v) ==
    CASE v.msg \in {"Missing required field", "Field must be"} -> 1
      [] v.msg = "event_type must be 'trip_start' or 'trip_end'" -> 2
      [] v.msg = "trip_id must be a valid UUID" -> 3
      [] v.msg = "timestamp must be ISO 8601 format" -> 4
      [] v.msg = "currency_code must be 3 uppercase letters" -> 5
      [] v.msg \in {"trip_start fare_amount must be 0",
                    "trip_end fare_amount must be > 0"} -> 6
      [] OTHER -> 0

Validated == vres # NotRun

\* C1: validate_event succeeds iff all six checks pass, and a record that
\* violates exactly one check is rejected with the error of that check
C1_SuccessIffSixChecks ==
    Validated =>
        /\ vres.ok <=> Violated(rec) = {}
        /\ \A k \in 1..6 : Violated(rec) = {k} => (~vres.ok /\ ErrorCheck(vres) = k)

\* C2: a record that violates two or more checks is rejected with the error
\* of the lowest-numbered violated check
C2_FailFastOrder ==
    (Validated /\ Cardinality(Violated(rec)) >= 2) =>
        (~vres.ok /\ ErrorCheck(vres) = Lowest(Violated(rec)))

\* C3: a record whose fare_amount is a boolean or a string is rejected, with
\* a type-mismatch error on fare_amount when every other field is a string
C3_FareBoolOrStringRejected ==
    (Validated /\ rec["fare_amount"].kind \in {"bool", "str"}) =>
        /\ ~vres.ok
        /\ (\A f \in Fields \ {"fare_amount"} : IsStr(rec, f)) =>
               (vres.exc = "TypeError" /\ vres.field = "fare_amount")

\* C4: an accepted record satisfies every field constraint of the TripEvent
\* table
C4_AcceptedMeetsTable ==
    (Validated /\ vres.ok) =>
        /\ rec["event_type"].s \in {TRIP_START, TRIP_END}
        /\ CanonicalUuid(rec["trip_id"].s)
        /\ rec["driver_id"].s # <<>>
        /\ rec["city"].s \in CITIES
        /\ ThreeUpper(rec["currency_code"].s)
        /\ rec["currency_symbol"].s # <<>>
        /\ IsNumber(rec)
        /\ rec["event_type"].s = TRIP_START => rec["fare_amount"].cents = 0
        /\ rec["event_type"].s = TRIP_END =>
               (~rec["fare_amount"].nan /\ rec["fare_amount"].cents > 0)

(***************************************************************************)
(* event_processor/lambda_function.py: one invocation of lambda_handler    *)
(* pc: "read" (started, before s3.get_object), "write" (before put_object), *)
(* "register" (before athena.start_query_execution), "done" (returned).    *)
(* steps lists the stages the invocation has entered.                      *)
(***************************************************************************)
Processed == [ok |-> TRUE, exc |-> "", msg |-> "Processed", field |-> "", got |-> ""]

Begin(ekey) ==
    [pc |-> "read", key |-> unquote_plus(ekey), data |-> NoRecord,
     curated_key |-> <<>>, steps |-> <<>>, failed |-> "", status |-> 0,
     body |-> NotRun]

\* the except clause: 500 with the text of the exception
Fail(iv, step, err) ==
    [iv EXCEPT !.pc = "done", !.failed = step, !.status = 500, !.body = err]

\* OnGetObject with the result of validate_event ignored
OnGetObject_ValidationIgnored(iv, ok, content) ==
    LET data == json_loads(content)
        rd == [iv EXCEPT !.steps = Append(@, "read")]
        vd == [rd EXCEPT !.steps = Append(@, "validate"), !.data = data]
    IN IF ~ok THEN Fail(rd, "read", Raise("ClientError", "get_object", "", ""))
       ELSE IF ~content.json
            THEN Fail(rd, "read", Raise("JSONDecodeError", "Expecting value", "", ""))
       ELSE [vd EXCEPT !.pc = "write", !.curated_key = CuratedKey(iv.key)]

\* get_object, decode, json.loads, validate_event, the curated key
OnGetObject(iv, ok, content) ==
    LET data == json_loads(content)
        v == validate_event(data)
        rd == [iv EXCEPT !.steps = Append(@, "read")]
        vd == [rd EXCEPT !.steps = Append(@, "validate"), !.data = data]
    IN IF ~ok THEN Fail(rd, "read", Raise("ClientError", "get_object", "", ""))
       ELSE IF ~content.json
            THEN Fail(rd, "read", Raise("JSONDecodeError", "Expecting value", "", ""))
       ELSE IF ~v.ok THEN Fail(vd, "validate", v)
       ELSE [vd EXCEPT !.pc = "write", !.curated_key = CuratedKey(iv.key)]

\* put_object, then add_partition up to the Athena call
OnPutObject(iv, ok) ==
    LET wr == [iv EXCEPT !.steps = Append(@, "write")]
        rg == [wr EXCEPT !.steps = Append(@, "register")]
    IN IF ~ok THEN Fail(wr, "write", Raise("ClientError", "put_object", "", ""))
       ELSE IF ~PartitionSearch(iv.key).found
            THEN Fail(rg, "register",
                      Raise("ValueError", "Partition structure not found in key", "", ""))
       ELSE [rg EXCEPT !.pc = "register"]

\* start_query_execution and the return of lambda_handler
OnStartQuery(iv, ok) ==
    IF ~ok THEN Fail(iv, "register", Raise("ClientError", "start_query_execution", "", ""))
    ELSE [iv EXCEPT !.pc = "done", !.status = 200, !.body = Processed]

\* ALTER TABLE ... ADD IF NOT EXISTS PARTITION (year, month, day) LOCATION ...
PartitionQuery(key) ==
    LET m == PartitionSearch(key)
    IN [year |-> m.year, month |-> m.month, day |-> m.day, location |-> S3Path(key)]

SamePartition(a, b) == a.year = b.year /\ a.month = b.month /\ a.day = b.day

\* what Athena does with the statement
AddIfNotExists(cat, q) ==
    IF \E j \in 1..Len(cat) : SamePartition(cat[j], q) THEN cat ELSE Append(cat, q)

Put(store, key, value) == (key :> value) @@ store

\* a notification starts lambda_handler, which runs up to s3.get_object and,
\* when the object is read, on to the point before s3.put_object
\* (outcomes: whether the call to the collaborator may succeed, may fail)
Invoke(j, outcomes) ==
    /\ j \notin DOMAIN inv
    /\ LET iv == Begin(notices[j]) IN
       \E ok \in (IF iv.key \in DOMAIN raw THEN outcomes ELSE {FALSE}) :
         inv' = (j :> OnGetObject(iv, ok, IF ok THEN raw[iv.key] ELSE NotJson)) @@ inv
    /\ UNCHANGED <<rec, vres, raw, curated, notices, athena, catalog, gen, uploads>>

ProcWrite(i, outcomes) ==
    /\ inv[i].pc = "write"
    /\ \E ok \in outcomes :
         /\ inv' = [inv EXCEPT ![i] = OnPutObject(@, ok)]
         /\ curated' = IF ok THEN Put(curated, inv[i].curated_key, inv[i].data)
                       ELSE curated
    /\ UNCHANGED <<rec, vres, raw, notices, athena, catalog, gen, uploads>>

ProcRegister(i, outcomes) ==
    /\ inv[i].pc = "register"
    /\ \E ok \in outcomes :
         /\ inv' = [inv EXCEPT ![i] = OnStartQuery(@, ok)]
         /\ athena' = IF ok THEN athena \cup {[by |-> i, q |-> PartitionQuery(inv[i].key)]}
                      ELSE athena
    /\ UNCHANGED <<rec, vres, raw, curated, notices, catalog, gen, uploads>>

\* Athena runs one of the submitted statements (they run in any order)
AthenaRun ==
    \E a \in athena :
        /\ catalog' = AddIfNotExists(catalog, a.q)
        /\ athena' = athena \ {a}
        /\ UNCHANGED <<rec, vres, raw, curated, notices, inv, gen, uploads>>

InvokeStep == \E j \in 1..Len(notices) : Invoke(j, BOOLEAN)
WriteStep == \E i \in DOMAIN inv : ProcWrite(i, BOOLEAN)
RegisterStep == \E i \in DOMAIN inv : ProcRegister(i, BOOLEAN)

\* the same steps when S3 and Athena answer every call of the processor
InvokeOk == \E j \in 1..Len(notices) : Invoke(j, {TRUE})
WriteOk == \E i \in DOMAIN inv : ProcWrite(i, {TRUE})
RegisterOk == \E i \in DOMAIN inv : ProcRegister(i, {TRUE})

(***************************************************************************)
(* Inputs of the processor                                                 *)
(***************************************************************************)
KEY_SPEC == <<"r","a","w","/","y","e","a","r","=","2","0","2","4","/","m","o","n","t","h","=","0","3","/","d","a","y","=","0","7","/","a","b","c","1","2","3","_","t","r","i","p","_","s","t","a","r","t",".","j","s","o","n">>
KEY_INNER_RAW == <<"r","a","w","/","y","e","a","r","=","2","0","2","4","/","m","o","n","t","h","=","0","3","/","d","a","y","=","0","7","/","r","a","w","/","b",".","j","s","o","n">>
KEY_INNER_EXT == <<"r","a","w","/","y","e","a","r","=","2","0","2","4","/","m","o","n","t","h","=","0","3","/","d","a","y","=","0","7","/","c",".","j","s","o","n",".","j","s","o","n">>
KEY_NO_PARTITION == <<"r","a","w","/","a",".","j","s","o","n">>
KEY_SUB_PARTITION == <<"r","a","w","/","y","e","a","r","=","2","0","2","4","/","m","o","n","t","h","=","0","3","/","d","a","y","=","0","7","/","h","o","u","r","=","0","5","/","d",".","j","s","o","n">>
KEY_MONTH13 == <<"r","a","w","/","y","e","a","r","=","2","0","2","4","/","m","o","n","t","h","=","1","3","/","d","a","y","=","7","/","e","+","f",".","j","s","o","n">>
ProcKeys == {KEY_SPEC, KEY_INNER_RAW, KEY_INNER_EXT, KEY_NO_PARTITION,
             KEY_SUB_PARTITION, KEY_MONTH13}

SampleDraw == [city |-> TOKYO, driver |-> 42, variant |-> "a", minutes |-> 5,
               fare |-> 1234,
               now |-> [ok |-> TRUE, year |-> 2024, month |-> 3, day |-> 7,
                        hour |-> 10, minute |-> 15, second |-> 30,
                        microsecond |-> 123456]]
GoodStart == generate_trip_pair(SampleDraw, 0).trip_start
GoodEnd == generate_trip_pair(SampleDraw, 0).trip_end
FreeEnd == [GoodEnd EXCEPT !["fare_amount"] = FloatV(0)]
NoCity == [GoodStart EXCEPT !["city"] = Absent]
ProcContents == {json_dumps(GoodStart), json_dumps(GoodEnd), json_dumps(FreeEnd),
                 json_dumps(NoCity), NotJson}

(***************************************************************************)
(* One processor invocation on one raw object                              *)
(***************************************************************************)
InitProc ==
    /\ \E k \in ProcKeys, c \in ProcContents :
         /\ raw = (k :> c)
         /\ notices = <<S3EventKey(k)>>
    /\ inv = <<>>
    /\ curated = <<>> /\ athena = {} /\ catalog = <<>>
    /\ rec = NoRecord /\ vres = NotRun
    /\ gen = [pc |-> "idle"] /\ uploads = <<>>

NextProc == InvokeStep \/ WriteStep \/ RegisterStep \/ AthenaRun
SpecProc == InitProc /\ [][NextProc]_vars

(***************************************************************************)
(* Concurrent processor invocations                                        *)
(***************************************************************************)
NumInv == 2
ConcContents == {json_dumps(GoodStart), json_dumps(FreeEnd)}

InitConc ==
    /\ \E ks \in [1..NumInv -> ProcKeys], store \in [ProcKeys -> ConcContents] :
         /\ raw = [k \in {ks[i] : i \in 1..NumInv} |-> store[k]]
         /\ notices = [i \in 1..NumInv |-> S3EventKey(ks[i])]
    /\ inv = <<>>
    /\ curated = <<>> /\ athena = {} /\ catalog = <<>>
    /\ rec = NoRecord /\ vres = NotRun
    /\ gen = [pc |-> "idle"] /\ uploads = <<>>

SpecConc == InitConc /\ [][NextProc]_vars

(***************************************************************************)
(* Properties of the processor                                             *)
(***************************************************************************)
EndsWith(s, p) == Len(s) >= Len(p) /\ StartsWithAt(s, Len(s) - Len(p) + 1, p)

\* the raw key with its leading raw prefix and its final extension replaced,
\* every other character kept
PrefixAndExtensionReplaced(key) ==
    LET a == IF StartsWithAt(key, 1, RAW_PREFIX)
             THEN CURATED_PREFIX \o SubSeq(key, Len(RAW_PREFIX) + 1, Len(key))
             ELSE key
    IN IF EndsWith(a, JSON_EXT)
       THEN SubSeq(a, 1, Len(a) - Len(JSON_EXT)) \o PARQUET_EXT
       ELSE a

KEY_SPEC_CURATED == <<"c","u","r","a","t","e","d","/","y","e","a","r","=","2","0","2","4","/","m","o","n","t","h","=","0","3","/","d","a","y","=","0","7","/","a","b","c","1","2","3","_","t","r","i","p","_","s","t","a","r","t",".","p","a","r","q","u","e","t">>

HasPartition(key) == PartitionSearch(key).found
Written(iv) == iv.pc \in {"register", "done"} /\ iv.failed \notin {"read", "validate", "write"}

\* C5: for a raw key with a year=/month=/day= partition the curated key is
\* the raw key with only the raw prefix and only the file extension
\* replaced; the key of the specification's example maps as it says, with
\* partition (2024, 3, 7)
C5_OnlyPrefixAndExtensionReplaced ==
    \A i \in DOMAIN inv :
        (inv[i].curated_key # <<>> /\ HasPartition(inv[i].key)) =>
            /\ inv[i].curated_key = PrefixAndExtensionReplaced(inv[i].key)
            /\ inv[i].key = KEY_SPEC =>
                   /\ inv[i].curated_key = KEY_SPEC_CURATED
                   /\ PartitionQuery(inv[i].key).year = 2024
                   /\ PartitionQuery(inv[i].key).month = 3
                   /\ PartitionQuery(inv[i].key).day = 7

\* C6: an invocation on a raw key without a partition segment never returns
\* 200, writes no curated object and registers no partition
C6_NoPartitionNothingWritten ==
    \A i \in DOMAIN inv :
        ~HasPartition(inv[i].key) =>
            /\ inv[i].status # 200
            /\ ~Written(inv[i])
            /\ CuratedKey(inv[i].key) \notin DOMAIN curated
            /\ inv[i].pc # "register"

Stages == <<"read", "validate", "write", "register">>
IsPrefix(s, t) == Len(s) <= Len(t) /\ SubSeq(t, 1, Len(s)) = s
Registered(iv) == iv.status = 200

InvocationInOrder(iv) ==
    /\ IsPrefix(iv.steps, Stages)
    /\ iv.status \in {0, 200, 500}
    /\ iv.pc = "done" <=> iv.status # 0
    /\ iv.status = 500 <=> iv.failed # ""
    /\ iv.status = 200 =>
           (iv.steps = Stages /\ iv.body = Processed /\ validate_event(iv.data).ok)
    /\ iv.failed # "" =>
           /\ iv.steps # <<>> /\ iv.steps[Len(iv.steps)] = iv.failed
           /\ ~iv.body.ok /\ iv.body.exc # ""
    /\ iv.failed = "validate" => iv.body = validate_event(iv.data)
    /\ (Len(iv.steps) >= 2 /\ ~validate_event(iv.data).ok) =>
           (iv.steps = <<"read", "validate">> /\ iv.status = 500)

\* the stores hold only what invocations that reached the stage put there
EffectsFollowStages ==
    /\ DOMAIN curated \subseteq {inv[i].curated_key : i \in {j \in DOMAIN inv : Written(inv[j])}}
    /\ Cardinality(athena) + Len(catalog) <= Cardinality({i \in DOMAIN inv : Registered(inv[i])})
    /\ \A i \in DOMAIN inv : Registered(inv[i]) =>
           /\ inv[i].curated_key \in DOMAIN curated
           /\ \/ \E a \in athena : a.by = i /\ a.q = PartitionQuery(inv[i].key)
              \/ \E j \in 1..Len(catalog) : SamePartition(catalog[j], PartitionQuery(inv[i].key))

\* a finished invocation does nothing more; a step adds stages at the end
NoRetry ==
    \A i \in DOMAIN inv :
        /\ i \in DOMAIN inv'
        /\ inv[i].pc = "done" => inv'[i] = inv[i]
        /\ IsPrefix(inv[i].steps, inv'[i].steps)

\* C7: the stages of an invocation occur at most once and in the order read,
\* validate, write, register; a failure ends the invocation at once with 500
\* and the error, nothing later runs and nothing is retried; 200 only after
\* all four stages; a record that fails validation is never written nor
\* registered
C7_StagesInOrderFailFast ==
    /\ [](EffectsFollowStages /\ \A i \in DOMAIN inv : InvocationInOrder(inv[i]))
    /\ [][NoRetry]_vars

C7_Witness ==
    \E i \in DOMAIN inv :
        /\ inv[i].failed = "validate" /\ inv[i].status = 500
        /\ inv[i].steps = <<"read", "validate">>
        /\ curated = <<>> /\ athena = {} /\ catalog = <<>>

Quiescent ==
    /\ athena = {}
    /\ DOMAIN inv = 1..Len(notices)
    /\ \A i \in DOMAIN inv : inv[i].pc = "done"

\* C9: when every invocation has finished, the catalog holds each partition
\* at most once and holds exactly the registrations that succeeded, and the
\* curated store exactly the objects written, whatever the interleaving was
C9_RegistrationOrderIndependent ==
    Quiescent =>
        /\ \A a, b \in 1..Len(catalog) : SamePartition(catalog[a], catalog[b]) => a = b
        /\ {catalog[j] : j \in 1..Len(catalog)}
             = {PartitionQuery(inv[i].key) : i \in {j \in DOMAIN inv : Registered(inv[j])}}
        /\ \A i \in DOMAIN inv : Written(inv[i]) =>
               /\ inv[i].curated_key \in DOMAIN curated
               /\ curated[inv[i].curated_key] = inv[i].data

(***************************************************************************)
(* event_generator.py: one invocation of lambda_handler                    *)
(* pc: "loop" (at the head of the for loop), "end" (trip_start uploaded,   *)
(* trip_end not yet), "done" (returned).                                   *)
(***************************************************************************)
MaxTrips == 2

Clock(y, mo, d, h, mi, s, us) ==
    [ok |-> TRUE, year |-> y, month |-> mo, day |-> d, hour |-> h,
     minute |-> mi, second |-> s, microsecond |-> us]

\* what random.randint, random.choice, random.uniform, uuid4 and utcnow may
\* give one call of generate_trip_pair: the ends of the ranges and values in
\* between, every city, clocks with and without microseconds and trips that
\* end on the next day, month and year
RandomDraws ==
    { [city |-> LONDON, driver |-> 1, variant |-> "8", minutes |-> 5, fare |-> 500,
       now |-> Clock(2024, 3, 7, 10, 15, 30, 123456)],
      [city |-> NEW_YORK, driver |-> 100, variant |-> "9", minutes |-> 45, fare |-> 5000,
       now |-> Clock(2023, 12, 31, 23, 50, 0, 0)],
      [city |-> TOKYO, driver |-> 42, variant |-> "a", minutes |-> 45, fare |-> 1234,
       now |-> Clock(2024, 2, 29, 23, 59, 59, 1)],
      [city |-> PARIS, driver |-> 7, variant |-> "b", minutes |-> 30, fare |-> 1205,
       now |-> Clock(2023, 2, 28, 23, 45, 7, 500000)],
      [city |-> BERLIN, driver |-> 100, variant |-> "8", minutes |-> 5, fare |-> 4990,
       now |-> Clock(2024, 11, 30, 0, 0, 0, 0)] }

\* event.get("num_trips", EVENTS_PER_INVOCATION)
NumTrips(event) == IF event.has THEN event.num_trips ELSE EVENTS_PER_INVOCATION

GenBegin(event) ==
    [pc |-> "loop", event |-> event, num_trips |-> NumTrips(event), trips |-> 0,
     pending |-> NoRecord, status |-> 0, failed_at |-> 0]

\* the except clause of the generator
GenFail(g, k) == [g EXCEPT !.pc = "done", !.status = 500, !.failed_at = k]

\* after upload_event_to_s3(start)
OnStartUploaded(g, ok, trip_end, k) ==
    IF ok THEN [g EXCEPT !.pc = "end", !.pending = trip_end] ELSE GenFail(g, k)

\* after upload_event_to_s3(end)
OnEndUploaded(g, ok, k) ==
    IF ok THEN [g EXCEPT !.pc = "loop", !.trips = @ + 1, !.pending = NoRecord]
    ELSE GenFail(g, k)

\* the loop run once too often
LoopContinues_OneMore(g) == g.trips <= g.num_trips

\* for _ in range(num_trips)
LoopContinues(g) == g.trips < g.num_trips

GenUploadStart ==
    /\ gen.pc = "loop" /\ LoopContinues(gen)
    /\ \E r \in RandomDraws, ok \in BOOLEAN :
         LET pair == generate_trip_pair(r, gen.trips) IN
         /\ gen' = OnStartUploaded(gen, ok, pair.trip_end, Len(uploads) + 1)
         /\ raw' = IF ok THEN Put(raw, RawKey(pair.trip_start), json_dumps(pair.trip_start))
                   ELSE raw
         /\ notices' = IF ok THEN Append(notices, S3EventKey(RawKey(pair.trip_start)))
                       ELSE notices
         /\ uploads' = IF ok THEN Append(uploads, pair.trip_start) ELSE uploads
    /\ UNCHANGED <<rec, vres, curated, inv, athena, catalog>>

GenUploadEnd ==
    /\ gen.pc = "end"
    /\ \E ok \in BOOLEAN :
         /\ gen' = OnEndUploaded(gen, ok, Len(uploads) + 1)
         /\ raw' = IF ok THEN Put(raw, RawKey(gen.pending), json_dumps(gen.pending))
                   ELSE raw
         /\ notices' = IF ok THEN Append(notices, S3EventKey(RawKey(gen.pending)))
                       ELSE notices
         /\ uploads' = IF ok THEN Append(uploads, gen.pending) ELSE uploads
    /\ UNCHANGED <<rec, vres, curated, inv, athena, catalog>>

GenReturn ==
    /\ gen.pc = "loop" /\ ~LoopContinues(gen)
    /\ gen' = [gen EXCEPT !.pc = "done", !.status = 200]
    /\ UNCHANGED <<rec, vres, raw, curated, notices, inv, athena, catalog, uploads>>

GenEvents == {[has |-> FALSE, num_trips |-> 0]}
             \cup {[has |-> TRUE, num_trips |-> n] : n \in 0..MaxTrips}

InitGen ==
    /\ \E e \in GenEvents : gen = GenBegin(e)
    /\ uploads = <<>> /\ raw = <<>> /\ notices = <<>>
    /\ curated = <<>> /\ inv = <<>> /\ athena = {} /\ catalog = <<>>
    /\ rec = NoRecord /\ vres = NotRun

NextGen == GenUploadStart \/ GenUploadEnd \/ GenReturn
SpecGen == InitGen /\ [][NextGen]_vars

(***************************************************************************)
(* The pipeline: the generator fills the raw store, every object put there *)
(* starts one processor invocation; S3 and Athena answer every call of the *)
(* processor                                                               *)
(***************************************************************************)
MaxPipelineTrips == 1

InitPipeline ==
    /\ \E n \in 1..MaxPipelineTrips : gen = GenBegin([has |-> TRUE, num_trips |-> n])
    /\ uploads = <<>> /\ raw = <<>> /\ notices = <<>>
    /\ curated = <<>> /\ inv = <<>> /\ athena = {} /\ catalog = <<>>
    /\ rec = NoRecord /\ vres = NotRun

NextPipeline == NextGen \/ InvokeOk \/ WriteOk \/ RegisterOk \/ AthenaRun
SpecPipeline == InitPipeline /\ [][NextPipeline]_vars

(***************************************************************************)
(* Properties of the generator and of the pipeline                         *)
(***************************************************************************)
RECURSIVE LexLess(_, _)
LexLess(a, b) ==
    IF Len(a) = 0 THEN FALSE
    ELSE IF Head(a) # Head(b) THEN Head(a) < Head(b)
    ELSE LexLess(Tail(a), Tail(b))

Moment(dt) == <<dt.year, dt.month, dt.day, dt.hour, dt.minute, dt.second,
                dt.microsecond>>
Earlier(e1, e2) ==
    LexLess(Moment(fromisoformat(e1["timestamp"].s)),
            Moment(fromisoformat(e2["timestamp"].s)))

\* the count the invocation asked for, 5 when it names none
Requested == IF gen.event.has THEN gen.event.num_trips ELSE 5

PairsInOrder ==
    \A j \in 1..Len(uploads) :
        IF j % 2 = 1 THEN uploads[j]["event_type"].s = TRIP_START
        ELSE /\ uploads[j]["event_type"].s = TRIP_END
             /\ uploads[j]["trip_id"] = uploads[j - 1]["trip_id"]
             /\ Earlier(uploads[j - 1], uploads[j])

Persisted ==
    /\ \A j \in 1..Len(uploads) :
           /\ RawKey(uploads[j]) \in DOMAIN raw
           /\ raw[RawKey(uploads[j])] = json_dumps(uploads[j])
    /\ Cardinality(DOMAIN raw) = Len(uploads)

\* C8: without a persistence failure the generator hands 2N events, N pairs
\* with trip_start before trip_end, to the raw store and returns 200; when
\* persisting the k-th event fails it returns 500, the k-1 events persisted
\* stay in the raw store and no further event is generated or persisted
C8_GeneratorHandsPairs ==
    /\ PairsInOrder
    /\ Persisted
    /\ Len(uploads) <= 2 * Requested
    /\ gen.pc = "done" <=> gen.status \in {200, 500}
    /\ gen.status = 200 => (Len(uploads) = 2 * Requested /\ gen.failed_at = 0)
    /\ gen.status = 500 => gen.failed_at = Len(uploads) + 1

C8_Witness ==
    /\ ~gen.event.has
    /\ gen.status = 500 /\ gen.failed_at = 4
    /\ Len(uploads) = 3 /\ Cardinality(DOMAIN raw) = 3

\* the calendar date an event's own timestamp text gives
DateOf(e) ==
    LET ts == e["timestamp"].s
    IN [year |-> IntOf(SubSeq(ts, 1, 4)), month |-> IntOf(SubSeq(ts, 6, 7)),
        day |-> IntOf(SubSeq(ts, 9, 10))]

\* C10: every event the generator stored is, when the processor runs on its
\* key and the collaborators succeed, accepted and answered with 200; the
\* curated key lies under curated/ and ends in .parquet; the partition
\* registered is the calendar date of the event's timestamp
C10_GeneratedEventsProcessed ==
    \A i \in DOMAIN inv :
        LET iv == inv[i]
            e == uploads[i]
        IN /\ iv.key = RawKey(e)
           /\ iv.data = e
           /\ iv.failed = "" /\ iv.status \in {0, 200}
           /\ iv.pc = "done" => iv.status = 200
           /\ StartsWithAt(iv.curated_key, 1, CURATED_PREFIX)
           /\ EndsWith(iv.curated_key, PARQUET_EXT)
           /\ iv.status = 200 =>
                  /\ iv.curated_key \in DOMAIN curated
                  /\ curated[iv.curated_key] = e
                  /\ \/ \E a \in athena : a.by = i /\ SamePartition(a.q, DateOf(e))
                     \/ \E j \in 1..Len(catalog) : SamePartition(catalog[j], DateOf(e))

\* a trip_end event of a trip that ended on the first of the next month has
\* been processed and its partition is in the catalog
C10_Witness ==
    \E i \in DOMAIN inv :
        /\ inv[i].status = 200
        /\ uploads[i]["event_type"].s = TRIP_END
        /\ DateOf(uploads[i]).day = 1 /\ DateOf(uploads[i - 1]).day # 1
        /\ \E j \in 1..Len(catalog) : SamePartition(catalog[j], DateOf(uploads[i]))

=============================================================================
